---- MODULE Spec2Model ----
(***************************************************************************)
(* Model of update_index.py: the script that appends to index.md one link  *)
(* line for every markdown file of the working directory that is not yet   *)
(* listed.  Text is modelled character by character: a string is a         *)
(* sequence of one-character strings, the index file is the sequence of    *)
(* its characters.                                                         *)
(***************************************************************************)
EXTENDS Naturals, Sequences, FiniteSets, TLC

VARIABLES
    files,             \* names in the working directory other than index.md
    index,             \* index.md: [exists |-> BOOLEAN, data |-> characters]
    pc,                \* per invocation: where the script is
    md_files,          \* per invocation: the list built at lines 22-24
    existing_entries,  \* per invocation: the set built at line 26
    pos,               \* per invocation: position of the for loop in md_files
    pre,               \* history: index.md as it was when the invocation started
    appended,          \* history: the texts the invocation has written, in order
    last,              \* history: how the previous invocation ended
    changed,           \* history: the directory changed since it ended
    runs               \* number of invocations started so far

vars == <<files, index, pc, md_files, existing_entries, pos, pre, appended,
          last, changed, runs>>

---------------------------------------------------------------------------
(* Bounds *)

\* invocations of the script in one behaviour
MaxRuns == 2

\* lines of the index file before the first invocation
MaxInitLines == 2

\* the same, when two invocations overlap
MaxConcInitLines == 1

---------------------------------------------------------------------------
(* Constants of the script *)

index_file == <<"i","n","d","e","x",".","m","d">>

base_url ==
    <<"h","t","t","p","s",":","/","/">> \o
    <<"g","i","t","h","u","b",".","c","o","m","/">> \o
    <<"a","r","y","a","2","0","0","4","/">> \o
    <<"h","a","s","h","n","o","d","e","-","b","a","c","k","u","p","/">> \o
    <<"b","l","o","b","/">> \o
    <<"m","a","i","n","/">>

\* the literal of line 14
Marker == <<"-", " ", "[">>

\* the literal of line 23
MdExt == <<".", "m", "d">>

---------------------------------------------------------------------------
(* Strings *)

\* str.startswith
StartsWith(s, p) == Len(s) >= Len(p) /\ SubSeq(s, 1, Len(p)) = p

\* str.endswith
EndsWith(s, p) ==
    Len(s) >= Len(p) /\ SubSeq(s, Len(s) - Len(p) + 1, Len(s)) = p

\* the characters str.strip() removes
IsSpace(c) == c \in {" ", "\t", "\n", "\r", "\f"}

RECURSIVE LStrip(_)
LStrip(s) ==
    IF s # <<>> /\ IsSpace(Head(s)) THEN LStrip(Tail(s)) ELSE s

RECURSIVE RStrip(_)
RStrip(s) ==
    IF s # <<>> /\ IsSpace(s[Len(s)])
    THEN RStrip(SubSeq(s, 1, Len(s) - 1))
    ELSE s

\* str.strip(): whitespace removed at both ends
Strip(s) == LStrip(RStrip(s))

\* position of the first line feed of s, 0 when it has none
FirstNL(s) ==
    IF \E k \in 1..Len(s) : s[k] = "\n"
    THEN CHOOSE k \in 1..Len(s) :
            s[k] = "\n" /\ \A j \in 1..(k - 1) : s[j] # "\n"
    ELSE 0

\* iteration over a text file: the lines, each with its line feed, the last
\* one without when the file does not end with one
RECURSIVE SplitLines(_)
SplitLines(s) ==
    IF s = <<>> THEN <<>>
    ELSE LET k == FirstNL(s) IN
         IF k = 0 THEN <<s>>
         ELSE <<SubSeq(s, 1, k)>> \o SplitLines(SubSeq(s, k + 1, Len(s)))

\* the f-string "- [{file_name}]({link})" of lines 19 and 31
FormatEntry(file_name, link) ==
    Marker \o file_name \o <<"]", "(">> \o link \o <<")">>

---------------------------------------------------------------------------
(* The functions of the script *)

NoFile == [exists |-> FALSE, data |-> <<>>]

read_existing_entries_AnyLine(idx) ==
    IF ~idx.exists THEN {}
    ELSE LET lines == SplitLines(idx.data) IN
         {Strip(lines[k]) : k \in 1..Len(lines)}

\* lines 10-14
read_existing_entries(idx) ==
    IF ~idx.exists THEN {}
    ELSE LET lines == SplitLines(idx.data) IN
         {Strip(lines[k]) :
            k \in {j \in 1..Len(lines) : StartsWith(lines[j], Marker)}}

append_to_index_Truncate(idx, file_name, link) ==
    [exists |-> TRUE, data |-> FormatEntry(file_name, link) \o <<"\n">>]

\* lines 17-19: open(index_file, "a") creates the file when it is absent and
\* writes at its end
append_to_index(idx, file_name, link) ==
    [exists |-> TRUE,
     data   |-> idx.data \o FormatEntry(file_name, link) \o <<"\n">>]

IsCandidate_NoExclusion(f) == EndsWith(f, MdExt)

IsCandidate_NoExtension(f) == f # index_file

\* the condition of the comprehension, line 23
IsCandidate(f) == EndsWith(f, MdExt) /\ f # index_file

\* line 30
file_link(file_name) == base_url \o file_name

\* line 31
entry(file_name) == FormatEntry(file_name, file_link(file_name))

IsMissing_Always(e, existing) == TRUE

\* line 32
IsMissing(e, existing) == e \notin existing

---------------------------------------------------------------------------
(* The environment *)

Procs == {1, 2}

a_md == <<"a", ".", "m", "d">>
b_md == <<"b", ".", "m", "d">>
c_txt == <<"c", ".", "t", "x", "t">>

\* the names the directory may hold beside index.md
FileNames == {a_md, b_md, c_txt}

old_url == <<"o", "l", "d">>

\* the lines index.md may hold before the first invocation
InitialLineChoices ==
    { entry(a_md),
      entry(b_md),
      FormatEntry(a_md, old_url),
      <<" ">> \o entry(a_md),
      entry(b_md) \o <<" ">>,
      <<"#", " ", "x">> }

RECURSIVE JoinLines(_, _)
\* the lines with a line feed after each, after the last one only if terminated
JoinLines(ls, terminated) ==
    IF ls = <<>> THEN <<>>
    ELSE IF Len(ls) = 1
         THEN Head(ls) \o (IF terminated THEN <<"\n">> ELSE <<>>)
         ELSE Head(ls) \o <<"\n">> \o JoinLines(Tail(ls), terminated)

InitialIndexes(maxLines) ==
    {NoFile} \cup
    { [exists |-> TRUE, data |-> JoinLines(ls, t)] :
        ls \in UNION {[1..n -> InitialLineChoices] : n \in 0..maxLines},
        t \in BOOLEAN }

\* os.listdir("."): index.md is listed when it exists
Listing == files \cup (IF index.exists THEN {index_file} ELSE {})

\* the orders in which os.listdir may yield a set of names
Orders(S) ==
    {o \in [1..Cardinality(S) -> S] : \A x \in S : \E k \in DOMAIN o : o[k] = x}

---------------------------------------------------------------------------
(* The state machine *)

Start ==
    /\ pc = [p \in Procs |-> "idle"]
    /\ md_files = [p \in Procs |-> <<>>]
    /\ existing_entries = [p \in Procs |-> {}]
    /\ pos = [p \in Procs |-> 1]
    /\ pre = [p \in Procs |-> NoFile]
    /\ appended = [p \in Procs |-> <<>>]
    /\ last = "none"
    /\ changed = FALSE
    /\ runs = 0

Init ==
    /\ files \in SUBSET FileNames
    /\ index \in InitialIndexes(MaxInitLines)
    /\ Start

Idle == \A p \in Procs : pc[p] = "idle"

\* a file is put in the directory between invocations
AddFile ==
    /\ Idle
    /\ \E f \in FileNames \ files : files' = files \cup {f}
    /\ changed' = TRUE
    /\ UNCHANGED <<index, pc, md_files, existing_entries, pos, pre, appended,
                   last, runs>>

\* a file is deleted from the directory between invocations
DeleteFile ==
    /\ Idle
    /\ \E f \in files : files' = files \ {f}
    /\ changed' = TRUE
    /\ UNCHANGED <<index, pc, md_files, existing_entries, pos, pre, appended,
                   last, runs>>

\* lines 22-24: the script starts and builds md_files from the listing
ListDir(p) ==
    /\ pc[p] = "idle"
    /\ runs < MaxRuns
    /\ \E o \in Orders(Listing) :
          md_files' = [md_files EXCEPT ![p] = SelectSeq(o, IsCandidate)]
    /\ pc' = [pc EXCEPT ![p] = "listed"]
    /\ pre' = [pre EXCEPT ![p] = index]
    /\ appended' = [appended EXCEPT ![p] = <<>>]
    /\ runs' = runs + 1
    /\ UNCHANGED <<files, index, existing_entries, pos, last, changed>>

\* line 26
ReadExisting(p) ==
    /\ pc[p] = "listed"
    /\ existing_entries' =
          [existing_entries EXCEPT ![p] = read_existing_entries(index)]
    /\ pos' = [pos EXCEPT ![p] = 1]
    /\ pc' = [pc EXCEPT ![p] = "loop"]
    /\ UNCHANGED <<files, index, md_files, pre, appended, last, changed, runs>>

\* line 13: open(index_file, "r") raises, the script ends with the error
ReadFails(p) ==
    /\ pc[p] = "listed"
    /\ index.exists
    /\ pc' = [pc EXCEPT ![p] = "failed"]
    /\ UNCHANGED <<files, index, md_files, existing_entries, pos, pre, appended,
                   last, changed, runs>>

\* lines 29-33: one iteration of the loop
Iterate(p) ==
    /\ pc[p] = "loop"
    /\ pos[p] <= Len(md_files[p])
    /\ LET file_name == md_files[p][pos[p]] IN
          IF IsMissing(entry(file_name), existing_entries[p])
          THEN /\ index' = append_to_index(index, file_name, file_link(file_name))
               /\ appended' = [appended EXCEPT ![p] =
                                 Append(@, entry(file_name) \o <<"\n">>)]
          ELSE UNCHANGED <<index, appended>>
    /\ pos' = [pos EXCEPT ![p] = @ + 1]
    /\ UNCHANGED <<files, pc, md_files, existing_entries, pre, last, changed, runs>>

\* line 18: open(index_file, "a") raises in an iteration that has to append;
\* nothing is written and the script ends with the error
AppendFails(p) ==
    /\ pc[p] = "loop"
    /\ pos[p] <= Len(md_files[p])
    /\ IsMissing(entry(md_files[p][pos[p]]), existing_entries[p])
    /\ pc' = [pc EXCEPT ![p] = "failed"]
    /\ UNCHANGED <<files, index, md_files, existing_entries, pos, pre, appended,
                   last, changed, runs>>

\* the loop is exhausted: the script ends normally
Finish(p) ==
    /\ pc[p] = "loop"
    /\ pos[p] > Len(md_files[p])
    /\ pc' = [pc EXCEPT ![p] = "done"]
    /\ UNCHANGED <<files, index, md_files, existing_entries, pos, pre, appended,
                   last, changed, runs>>

\* the process is gone; its variables are dropped
Exit(p) ==
    /\ pc[p] \in {"done", "failed"}
    /\ last' = pc[p]
    /\ changed' = FALSE
    /\ pc' = [pc EXCEPT ![p] = "idle"]
    /\ md_files' = [md_files EXCEPT ![p] = <<>>]
    /\ existing_entries' = [existing_entries EXCEPT ![p] = {}]
    /\ pos' = [pos EXCEPT ![p] = 1]
    /\ pre' = [pre EXCEPT ![p] = NoFile]
    /\ appended' = [appended EXCEPT ![p] = <<>>]
    /\ UNCHANGED <<files, index, runs>>

Run(p) ==
    \/ ListDir(p)
    \/ ReadExisting(p)
    \/ ReadFails(p)
    \/ Iterate(p)
    \/ AppendFails(p)
    \/ Finish(p)
    \/ Exit(p)

\* one invocation at a time, as the script is meant to be used
Next ==
    \/ AddFile
    \/ DeleteFile
    \/ Run(1)

Spec == Init /\ [][Next]_vars

InitConc ==
    /\ files \in SUBSET FileNames
    /\ index \in InitialIndexes(MaxConcInitLines)
    /\ Start

\* two invocations in the same directory, which may overlap
NextConc == \E p \in Procs : Run(p)

SpecConc == InitConc /\ [][NextConc]_vars

---------------------------------------------------------------------------
(* Vocabulary of the properties *)

IsPrefix(s, t) == Len(s) <= Len(t) /\ SubSeq(t, 1, Len(s)) = s

\* a line without its line feed
Chomp(l) ==
    IF l # <<>> /\ l[Len(l)] = "\n" THEN SubSeq(l, 1, Len(l) - 1) ELSE l

\* the texts of the lines of a file, in order
LineTexts(idx) ==
    LET lines == SplitLines(idx.data) IN
    [k \in 1..Len(lines) |-> Chomp(lines[k])]

\* the file has a line whose whole text is t
HasLine(idx, t) == \E k \in DOMAIN LineTexts(idx) : LineTexts(idx)[k] = t

\* how many lines of the file have the text t
CountLines(idx, t) ==
    Cardinality({k \in DOMAIN LineTexts(idx) : LineTexts(idx)[k] = t})

\* how many times the invocation wrote the text t
CountWrites(p, t) ==
    Cardinality({k \in DOMAIN appended[p] : appended[p][k] = t})

\* what a write of the entry of file name n puts in the file
Written(n) == entry(n) \o <<"\n">>

\* the file has, at column 0, the entry of n followed by whitespace only
Recorded(idx, n) ==
    \E k \in DOMAIN SplitLines(idx.data) :
        LET l == SplitLines(idx.data)[k] IN
        /\ StartsWith(l, Marker)
        /\ Strip(l) = entry(n)

\* the file has an entry line for n whose link is not the canonical one
HasOtherLink(idx, n) ==
    \E k \in DOMAIN LineTexts(idx) :
        LET t == LineTexts(idx)[k] IN
        /\ StartsWith(t, Marker \o n \o <<"]", "(">>)
        /\ t[Len(t)] = ")"
        /\ t # entry(n)

\* the names of the directory that are candidates, by the wording of the
\* data model: markdown extension, and not the index file
MarkdownIn(S) ==
    {f \in S : Len(f) >= 3 /\ f[Len(f) - 2] = "." /\ f[Len(f) - 1] = "m"
                /\ f[Len(f)] = "d" /\ f # index_file}

RECURSIVE Flatten(_)
Flatten(ss) == IF ss = <<>> THEN <<>> ELSE Head(ss) \o Flatten(Tail(ss))

InRun(p) == pc[p] \in {"loop", "done", "failed"}

\* the writes owed after the first n candidates of the invocation
RECURSIVE Owed(_, _)
Owed(p, n) ==
    IF n = 0 THEN <<>>
    ELSE LET f == md_files[p][n] IN
         IF entry(f) \in existing_entries[p]
         THEN Owed(p, n - 1)
         ELSE Append(Owed(p, n - 1), Written(f))

---------------------------------------------------------------------------
(* Properties *)

\* C1 - idempotence: an invocation that follows a successful one, with the
\* directory unchanged in between, leaves index.md as it found it and writes
\* nothing.
C1_Idempotent ==
    (pc[1] = "done" /\ last = "done" /\ ~changed)
        => (index = pre[1] /\ appended[1] = <<>>)

\* C2 - completeness: when an invocation ends without error, index.md has,
\* for every candidate, a line whose whole text is the candidate's entry.
C2_Complete ==
    \A p \in Procs :
        pc[p] = "done" =>
            \A k \in DOMAIN md_files[p] : HasLine(index, entry(md_files[p][k]))

\* C3 - non-destructive: the lines index.md had when the invocation started
\* are, with the same text and in the same order, the first lines it has
\* during and after the invocation; the invocation only adds whole lines
\* after them.
C3_NonDestructive ==
    \A p \in Procs :
        InRun(p) =>
            /\ IsPrefix(LineTexts(pre[p]), LineTexts(index))
            /\ \A k \in (Len(LineTexts(pre[p])) + 1)..Len(LineTexts(index)) :
                  \E j \in DOMAIN appended[p] :
                      appended[p][j] = LineTexts(index)[k] \o <<"\n">>

\* C4 - exclusion: index.md is never in md_files and its entry is never
\* written.
C4_Exclusion ==
    \A p \in Procs :
        /\ \A k \in DOMAIN md_files[p] : md_files[p][k] # index_file
        /\ CountWrites(p, Written(index_file)) = 0

C4_Witness ==
    /\ pc[1] = "done"
    /\ pre[1].exists
    /\ appended[1] # <<>>

\* C5 - no candidate, no mutation: in a directory without candidate the
\* invocation leaves index.md as it was, absent if it was absent; and index.md
\* exists only if it existed when the invocation started or the invocation
\* wrote an entry.
C5_NoCandidateNoMutation ==
    InRun(1) =>
        /\ MarkdownIn(files) = {} => index = pre[1]
        /\ index.exists => (pre[1].exists \/ appended[1] # <<>>)

C5_Witness ==
    /\ pc[1] = "done"
    /\ MarkdownIn(files) = {}
    /\ c_txt \in files
    /\ index.exists
    /\ index.data # <<>>

\* C6 - deduplication by line text: for a candidate n whose entry is not
\* recorded while a line "- [n](u)" with another link is, a finished
\* invocation has written the entry of n once, the file has it as a line and
\* still has every line it had; for a candidate whose entry is recorded,
\* nothing is written.
C6_DedupByLineText ==
    pc[1] = "done" =>
        \A k \in DOMAIN md_files[1] :
            LET n == md_files[1][k] IN
            /\ (HasOtherLink(pre[1], n) /\ ~Recorded(pre[1], n)) =>
                  /\ CountWrites(1, Written(n)) = 1
                  /\ HasLine(index, entry(n))
                  /\ \A j \in DOMAIN LineTexts(pre[1]) :
                        HasLine(index, LineTexts(pre[1])[j])
            /\ Recorded(pre[1], n) => CountWrites(1, Written(n)) = 0

\* C7 - what an invocation writes: at every point of the loop the texts
\* written so far are the entries of the candidates already visited that are
\* not in the existing entry set, each once, in the order of md_files.
C7_AppendsMissingInOrder ==
    \A p \in Procs :
        pc[p] \in {"loop", "done"} =>
            /\ appended[p] = Owed(p, pos[p] - 1)
            /\ \A j, k \in DOMAIN appended[p] :
                  appended[p][j] = appended[p][k] => j = k
            /\ pc[p] = "done" => pos[p] = Len(md_files[p]) + 1

C7_Witness ==
    /\ pc[1] = "done"
    /\ md_files[1] = <<b_md, a_md>>
    /\ appended[1] = <<Written(b_md), Written(a_md)>>

\* C8 - the scan: the existing entry set is the set of the lines of index.md
\* that begin with "- [" at column 0, stripped; so a finished invocation has
\* written the entry of a candidate exactly when no such line, stripped, is
\* that entry.
C8_ExistingEntryScan ==
    /\ pc[1] \in {"loop", "done"} =>
          existing_entries[1] =
              {Strip(l) : l \in {SplitLines(pre[1].data)[k] :
                                     k \in {j \in DOMAIN SplitLines(pre[1].data) :
                                              StartsWith(SplitLines(pre[1].data)[j], Marker)}}}
    /\ pc[1] = "done" =>
          \A k \in DOMAIN md_files[1] :
              (CountWrites(1, Written(md_files[1][k])) > 0)
                  <=> ~Recorded(pre[1], md_files[1][k])

C8_Witness ==
    /\ pc[1] = "done"
    /\ HasLine(pre[1], <<" ">> \o entry(a_md))
    /\ HasLine(pre[1], entry(b_md) \o <<" ">>)
    /\ a_md \in files /\ b_md \in files
    /\ appended[1] = <<Written(a_md)>>

\* C9 - a failed write: when the invocation has ended with an error, what it
\* wrote before is in index.md after what was there, nothing was written for
\* a later candidate, and the lines index.md had when the invocation started
\* are unchanged.
C9_FailureKeepsLines ==
    pc[1] = "failed" =>
        /\ index.data = pre[1].data \o Flatten(appended[1])
        /\ appended[1] = Owed(1, pos[1] - 1)
        /\ IsPrefix(LineTexts(pre[1]), LineTexts(index))

\* C10 - overlapping invocations: no step removes or alters what index.md
\* holds, so what either invocation has written stays; and (the witness) two
\* overlapping invocations can both write the entry of the same candidate.
C10_WrittenStays ==
    [][/\ index.exists => index'.exists
       /\ IsPrefix(index.data, index'.data)]_vars

C10_Witness ==
    /\ pc[1] = "done" /\ pc[2] = "done"
    /\ CountWrites(1, Written(a_md)) = 1
    /\ CountWrites(2, Written(a_md)) = 1
    /\ CountLines(index, entry(a_md)) = 2

====
